---- MODULE Spec2Model ----
(***************************************************************************)
(* Retrieval pipeline of hackrx-bajaj: ingestion (modules/ingest.py),      *)
(* semantic search (modules/search.py) and the endpoint that drives them   *)
(* (main.py), against an external vector store (Pinecone) whose answers    *)
(* are nondeterministic.                                                   *)
(*                                                                         *)
(* The specifications share the variables:                                 *)
(*   SpecSearch  one call of search_with_text(questions, ns, top_k,        *)
(*               max_retries)                                              *)
(*   SpecIngest  one call of parallel_upsert_complete(chunks, namespace)   *)
(*   SpecRewrite repeated calls of it with the same chunks and namespace   *)
(*   SpecProcess one call of process_and_ingest, the index being ready     *)
(*   SpecChunk   one call of intelligent_text_chunking                     *)
(*   SpecAlloc   calls of create_unique_namespace                          *)
(*   SpecParse   one question of search_with_text, its response of any     *)
(*               number of hits                                            *)
(*   Spec        one request through run_pipeline                          *)
(***************************************************************************)
EXTENDS Integers, Sequences, FiniteSets, TLC

\* ---------------------------------------------------------------- bounds
MaxQuestions == 2
MaxTopK == 2
MaxRetriesArg == 2
MaxBatches == 2
MaxCalls == 2
MaxPolls == 2
MaxHits == 3
MaxPieces == 6
MaxNsCalls == 3
MaxClock == 2
MaxBody == 2
MaxPages == 2
MaxPairs == 2

\* ------------------------------------------------------ program constants
DefaultMaxRetries == 5
DefaultTopK == 3
SearchAttempts == 3
UpsertMaxRetries == 3
BatchSize == 50
MaxWorkers == 20
FallbackMinLen == 10
QualityThreshold == 90
CharsPerToken == 4
MinSentenceLen == 20
GroqMaxRetries == 3

Questions == {"q1", "q2"}
Namespaces == {"doc_a", "doc_b"}

VARIABLES
    \* the vector store (external)
    indexState,       \* "absent" | "creating" | "ready": list_indexes / describe_index
    store,            \* set of records [ns, _id, fields] held by the index
    \* search_with_text
    s_pc,             \* "idle" | "gate" | "query" | "returned" | "raised"
    questions, ns, top_k, max_retries,
    attempt,          \* loop variable of the readiness loop (search.py:40)
    namespace_ready,
    qi,               \* position (1-based) of the question of the for loop (search.py:73)
    search_attempt,   \* loop variable of the per-question loop (search.py:78)
    final_output,
    polls,            \* describe_index_stats calls issued by this call
    poll_positive,    \* some poll of this call reported vector_count > 0 for ns
    poll_raised,      \* some poll of this call raised
    queries,          \* queries[i]: index.search calls issued for question i
    failed_all,       \* questions queried at least once, every query of which raised
    addressed,        \* namespaces the polls and queries of this call were addressed to
    s_ret,            \* the list search_with_text returned
    deletes,          \* delete(delete_all, namespace) calls issued: sequence of namespaces
    responses,        \* per entry of final_output: the hits of the response it was built from
    last_hits,        \* len(hits) of the latest index.search call (NoCall, Raised: no response)
    \* parallel_upsert_complete
    i_pc,             \* "idle" | "list_indexes" | "create_index" | "wait_ready" | "build"
                      \* | "submit" | "returned" | "raised"
    chunks, namespace,
    docs,             \* the records built from the chunks (ingest.py:188-194)
    exists_seen,      \* the store has told this call that the index exists
    ready_seen,       \* the store has told this call that the index is ready
    describe_polls,   \* describe_index calls of the wait loop (ingest.py:182)
    submitted,        \* batches handed to the executor so far (ingest.py:201-203)
    w_state,          \* per batch: "queued" | "running" | "done" (robust_batch_upsert)
    upsert_attempt,   \* per batch: loop variable of robust_batch_upsert (ingest.py:159)
    upsert_calls,     \* per batch: upsert_records calls issued
    delays,           \* per batch: the sleeps between attempts, in seconds
    w_result,         \* per batch: value robust_batch_upsert returned (-1: none yet)
    applied,          \* batches some upsert of which took effect in the store
    rewritten,        \* batches written again after an upsert of theirs had taken effect
    collected,        \* futures whose result the collect loop has taken (ingest.py:207)
    timed_out,        \* batches whose future.result(timeout=45) raised
    uploaded_count, failed_count,
    i_ret,            \* value parallel_upsert_complete returned
    calls,            \* calls of parallel_upsert_complete made so far
    i_error,          \* "none" | "already_exists" | "store_error": what the call raised
    \* run_pipeline and process_and_ingest_complete
    p_pc,             \* "idle" | "auth" | "ingest" | "extract" | "chunk" | "upsert"
                      \* | "search" | "responded"
    authorization,    \* the request's Authorization header
    extracted,        \* "none" | "text" | "raised": how extract_complete_text_from_pdf ended
    input_questions,  \* input.questions
    ingest_ret,       \* the dict process_and_ingest returned
    search_args,      \* the positional arguments run_pipeline gave search_with_text
    http_status,      \* status of the response (0: none yet)
    \* intelligent_text_chunking
    c_pc,             \* "idle" | "split" | "accumulate" | "done"
    text, max_tokens, overlap_tokens,
    sentences,
    si,               \* position (1-based) of the sentence of the for loop (ingest.py:97)
    c_chunks,         \* the local list chunks
    current_chunk, overlap_buffer,
    c_ret,            \* the list intelligent_text_chunking returned
    \* create_unique_namespace
    clock,            \* the wall clock, in milliseconds
    ns_calls,         \* the calls made so far: [timestamp, unique_id, process_id, namespace]
    \* extract_complete_text_from_pdf
    e_pc,             \* "idle" | "get" | "tempfile" | "download" | "read_pdf" | "pages"
                      \* | "check_text" | "except" | "returned" | "raised"
    body,             \* chunks iter_content yields for the response body
    pdf_pages,        \* per page of the document: what page.extract_text() does
    temp_files,       \* the files of the temporary directory
    temp_path,        \* the local temp_path (Unbound: not in locals())
    written,          \* chunks written to the temporary file
    page_num,         \* loop variable of the page loop (ingest.py:45)
    full_text,        \* the pages whose text was appended to full_text
    e_error,          \* the exception the except clause caught
    e_ret,            \* the value returned
    \* get_document_answers and make_groq_request
    d_pc,             \* "idle" | "loop" | "request" | "returned"
    qa_pairs,         \* the argument: dicts with question and related_clauses
    d_i,              \* loop variable i of the for loop (decide.py:102)
    answers,          \* the local list answers
    answered,         \* per entry of answers: the position of the pair it was appended for
    g_attempt,        \* loop variable attempt of make_groq_request (decide.py:47)
    posts,            \* per pair: requests.post calls issued
    last_status,      \* per pair: status of the last response (0: the post raised)
    d_ret             \* the dict get_document_answers returned

storeVars == <<indexState, store>>
ingestVars == <<i_pc, chunks, namespace, docs, exists_seen, ready_seen, describe_polls,
                submitted, w_state, upsert_attempt, upsert_calls, delays, w_result,
                applied, rewritten, collected, timed_out, uploaded_count, failed_count, i_ret, calls, i_error>>
searchVars == <<s_pc, questions, ns, top_k, max_retries, attempt, namespace_ready,
                qi, search_attempt, final_output, polls, poll_positive, poll_raised,
                queries, failed_all, addressed, s_ret, deletes, responses, last_hits>>
pipeVars == <<p_pc, authorization, extracted, input_questions, ingest_ret, search_args,
              http_status>>
chunkVars == <<c_pc, text, max_tokens, overlap_tokens, sentences, si, c_chunks,
               current_chunk, overlap_buffer, c_ret>>
allocVars == <<clock, ns_calls>>
extractVars == <<e_pc, body, pdf_pages, temp_files, temp_path, written, page_num,
                 full_text, e_error, e_ret>>
decideVars == <<d_pc, qa_pairs, d_i, answers, answered, g_attempt, posts, last_status, d_ret>>
vars == <<storeVars, searchVars, ingestVars, pipeVars, chunkVars, allocVars, extractVars, decideVars>>

\* values of last_hits when the latest index.search call gave no response
NoCall == -2
Raised == -1

\* ------------------------------------------------------------ Python values
Str(s) == [t |-> "str", v |-> s]
Num(n) == [t |-> "int", v |-> n]
Truthy(val) == IF val.t = "str" THEN val.v # "" ELSE val.v # 0
StrLen(val) == Len(val.v)

RECURSIVE SeqsUpTo(_, _)
SeqsUpTo(S, n) ==
    IF n = 0 THEN {<<>>}
    ELSE LET shorter == SeqsUpTo(S, n - 1)
         IN shorter \cup {Append(s, x) : s \in {t \in shorter : Len(t) = n - 1}, x \in S}

\* sequences without repetition over S, of length <= n
NoRepeat(s) == \A i, j \in 1..Len(s) : i # j => s[i] # s[j]
RankedLists(S, n) == {s \in SeqsUpTo(S, n) : NoRepeat(s)}

Min(a, b) == IF a < b THEN a ELSE b

\* ---------------------------------------------------------------- the store
NsRecords(st, n) == {r \in st : r.ns = n}
VectorCount(st, n) == Cardinality(NsRecords(st, n))

\* upsert_records(records, namespace): a record with the id of a stored one replaces it
Upsert(st, recs, n) ==
    LET ids == {d._id : d \in recs}
    IN {r \in st : r.ns # n \/ r._id \notin ids}
         \cup {[ns |-> n, _id |-> d._id, fields |-> d.fields] : d \in recs}

\* what describe_index_stats may report for namespace n: the store is eventually
\* consistent, so a populated namespace may still be missing or reported empty
StatsOutcomes(st, n) ==
    {[kind |-> "raise"], [kind |-> "absent"], [kind |-> "count", vector_count |-> 0]}
      \cup (IF VectorCount(st, n) > 0
            THEN {[kind |-> "count", vector_count |-> VectorCount(st, n)]}
            ELSE {})

\* a hit of a search response: the stored record's id and fields
Hit(r) == [_id |-> r._id, fields |-> r.fields]

\* what index.search(namespace, top_k) may answer: an exception, or at most top_k
\* hits ranked in some order, all from that namespace (possibly none: not yet indexed)
SearchOutcomes(st, n, k) ==
    {[kind |-> "raise"]}
      \cup {[kind |-> "hits", hits |-> h] :
              h \in RankedLists({Hit(r) : r \in NsRecords(st, n)}, k)}

\* --------------------------------------------------------- search_with_text
possible_fields == <<"text", "chunk_text", "content", "description", "body">>

HasField(fields, name) == \E i \in 1..Len(fields) : fields[i][1] = name
FieldValue(fields, name) ==
    fields[CHOOSE i \in 1..Len(fields) : fields[i][1] = name][2]

\* search.py:105-111: the value of the first of possible_fields the hit carries
KnownFieldText(fields) ==
    LET present == {i \in 1..Len(possible_fields) : HasField(fields, possible_fields[i])}
    IN IF present = {} THEN [t |-> "none"]
       ELSE FieldValue(fields, possible_fields[CHOOSE i \in present : \A j \in present : i <= j])

\* search.py:114-118: the first string-valued field longer than FallbackMinLen
FallbackText(fields) ==
    LET ok == {i \in 1..Len(fields) :
                 fields[i][2].t = "str" /\ StrLen(fields[i][2]) > FallbackMinLen}
    IN IF ok = {} THEN [t |-> "none"]
       ELSE fields[CHOOSE i \in ok : \A j \in ok : i <= j][2]

IsSet(val) == val.t # "none" /\ Truthy(val)

\* search.py:100-125: the clause one hit contributes
ClauseOfHit(hit) ==
    LET known == KnownFieldText(hit.fields)
        text_content == IF ~IsSet(known) /\ Len(hit.fields) > 0
                        THEN (IF IsSet(FallbackText(hit.fields))
                              THEN FallbackText(hit.fields) ELSE known)
                        ELSE known
    IN IF IsSet(text_content) THEN text_content
       ELSE Str("[No text content - ID: " \o hit._id \o "]")

RelatedClauses(hits) == [i \in 1..Len(hits) |-> ClauseOfHit(hits[i])]

\* mutant: an empty namespace passes the gate (>= for >)
GateReady_AnyCount(o) == o.kind = "count" /\ o.vector_count >= 0

\* search.py:45-47: the poll shows the namespace with vector_count > 0
GateReady(o) == o.kind = "count" /\ o.vector_count > 0

\* mutant: the poll is not inside a try, its exception leaves search_with_text
GatePcAfter_Propagates(o) ==
    IF o.kind = "raise" THEN "raised" ELSE IF GateReady(o) THEN "query" ELSE "gate"

\* search.py:41-64: where the readiness loop goes after one poll; an exception of
\* the poll is caught inside the loop
GatePcAfter(o) == IF GateReady(o) THEN "query" ELSE "gate"

\* search.py:40-64: one iteration of the readiness loop
DescribeIndexStats ==
    /\ s_pc = "gate"
    /\ attempt < max_retries
    /\ \E o \in StatsOutcomes(store, ns) :
         /\ polls' = polls + 1
         /\ addressed' = addressed \cup {ns}
         /\ poll_positive' = (poll_positive \/ (o.kind = "count" /\ o.vector_count > 0))
         /\ poll_raised' = (poll_raised \/ o.kind = "raise")
         /\ s_pc' = GatePcAfter(o)
         /\ namespace_ready' = (namespace_ready \/ GateReady(o))
         /\ attempt' = IF GateReady(o) THEN attempt ELSE attempt + 1
    /\ UNCHANGED <<questions, ns, top_k, max_retries, qi, search_attempt, final_output,
                   queries, failed_all, s_ret, deletes, responses, last_hits>>
    /\ UNCHANGED <<storeVars, ingestVars, pipeVars>>
    /\ UNCHANGED <<chunkVars, allocVars, extractVars, decideVars>>

NotReadyResult(q) ==
    [question |-> q, related_clauses |-> <<>>, error |-> "Namespace not ready"]

\* search.py:66-69: the loop ran out without a ready namespace
GateNotReady ==
    /\ s_pc = "gate"
    /\ attempt >= max_retries
    /\ ~namespace_ready
    /\ s_ret' = [i \in 1..Len(questions) |-> NotReadyResult(questions[i])]
    /\ s_pc' = "returned"
    /\ UNCHANGED <<questions, ns, top_k, max_retries, attempt, namespace_ready, qi,
                   search_attempt, final_output, polls, poll_positive, poll_raised,
                   queries, failed_all, addressed, deletes, responses, last_hits>>
    /\ UNCHANGED <<storeVars, ingestVars, pipeVars>>
    /\ UNCHANGED <<chunkVars, allocVars, extractVars, decideVars>>

\* mutant: any response is retried, except on the last attempt
RetryZeroHits_AnyResponse(hits, sa) == sa < SearchAttempts - 1

\* search.py:92: a response without hits is retried, except on the last attempt
RetryZeroHits(hits, sa) == Len(hits) = 0 /\ sa < SearchAttempts - 1

\* search.py:127-130
HitsResult(q, hits) == [question |-> q, related_clauses |-> RelatedClauses(hits)]

\* mutant: the degraded result carries no error marker
ErrorResult_NoMarker(q) == [question |-> q, related_clauses |-> <<>>]

\* search.py:138-142
ErrorResult(q) == [question |-> q, related_clauses |-> <<>>, error |-> "query error"]

\* mutant: nothing is appended when the last attempt raises
OnQueryError_NoAppend(out, q, sa) == out

\* search.py:133-142: final_output after an attempt that raised
OnQueryError(out, q, sa) ==
    IF sa < SearchAttempts - 1 THEN out ELSE Append(out, ErrorResult(q))

\* search.py:88-131: final_output after an attempt that answered
OnQueryHits(out, q, hits, sa) ==
    IF RetryZeroHits(hits, sa) THEN out ELSE Append(out, HitsResult(q, hits))

\* search.py:78-142: whether the attempt loop of the question goes on after this attempt
AttemptsGoOn(o, sa) ==
    IF o.kind = "raise" THEN sa < SearchAttempts - 1 ELSE RetryZeroHits(o.hits, sa)

\* search.py:78-142: one attempt of the query of question qi, the call
\* index.search having ended as o (an exception or a response with hits)
IndexSearchWith(o) ==
    /\ s_pc = "query"
    /\ qi <= Len(questions)
    /\ search_attempt < SearchAttempts
    /\ queries' = [queries EXCEPT ![qi] = @ + 1]
    /\ failed_all' = IF o.kind = "raise" /\ (search_attempt = 0 \/ qi \in failed_all)
                     THEN failed_all \cup {qi} ELSE failed_all \ {qi}
    /\ addressed' = addressed \cup {ns}
    /\ final_output' = IF o.kind = "raise"
                       THEN OnQueryError(final_output, questions[qi], search_attempt)
                       ELSE OnQueryHits(final_output, questions[qi], o.hits, search_attempt)
    /\ responses' = IF AttemptsGoOn(o, search_attempt) THEN responses
                    ELSE Append(responses, IF o.kind = "raise" THEN <<>> ELSE o.hits)
    /\ last_hits' = IF o.kind = "raise" THEN Raised ELSE Len(o.hits)
    /\ IF AttemptsGoOn(o, search_attempt)
       THEN /\ search_attempt' = search_attempt + 1
            /\ qi' = qi
       ELSE /\ search_attempt' = 0
            /\ qi' = qi + 1
    /\ UNCHANGED <<s_pc, questions, ns, top_k, max_retries, attempt, namespace_ready,
                   polls, poll_positive, poll_raised, s_ret, deletes>>
    /\ UNCHANGED <<storeVars, ingestVars, pipeVars>>
    /\ UNCHANGED <<chunkVars, allocVars, extractVars, decideVars>>

\* search.py:73-142: one attempt, answered by the store within its contract
IndexSearch == \E o \in SearchOutcomes(store, ns, top_k) : IndexSearchWith(o)

\* what a response of index.search may hold when the number of its hits is not
\* taken to be bounded by top_k: an exception, or up to MaxHits hits of the namespace
AnyResponses(st, n) ==
    {[kind |-> "raise"]}
      \cup {[kind |-> "hits", hits |-> h] :
              h \in RankedLists({Hit(r) : r \in NsRecords(st, n)}, MaxHits)}

\* search.py:73-142: one attempt, answered with any number of hits
SearchResponse == \E o \in AnyResponses(store, ns) : IndexSearchWith(o)

\* search.py:144-145
SearchReturn ==
    /\ s_pc = "query"
    /\ qi > Len(questions)
    /\ s_ret' = final_output
    /\ s_pc' = "returned"
    /\ UNCHANGED <<questions, ns, top_k, max_retries, attempt, namespace_ready, qi,
                   search_attempt, final_output, polls, poll_positive, poll_raised,
                   queries, failed_all, addressed, deletes, responses, last_hits>>
    /\ UNCHANGED <<storeVars, ingestVars, pipeVars>>
    /\ UNCHANGED <<chunkVars, allocVars, extractVars, decideVars>>

\* pincone_basics.py:12: the maintenance script, the repository's only delete call
PurgeDefault ==
    /\ deletes = <<>>
    /\ deletes' = Append(deletes, "default")
    /\ store' = store \ NsRecords(store, "default")
    /\ UNCHANGED <<indexState, ingestVars, pipeVars>>
    /\ UNCHANGED <<s_pc, questions, ns, top_k, max_retries, attempt, namespace_ready, qi,
                   search_attempt, final_output, polls, poll_positive, poll_raised,
                   queries, failed_all, addressed, s_ret, responses, last_hits>>
    /\ UNCHANGED <<chunkVars, allocVars, extractVars, decideVars>>

\* ------------------------------------------------- parallel_upsert_complete
RECURSIVE Pad6(_)
\* ingest.py:191: the format {i:06d}
Pad6(digits) == IF Len(digits) >= 6 THEN digits ELSE Pad6("0" \o digits)

\* mutant: an id drawn anew in every call, as a uuid would be
RecordId_PerCall(n, i) == n \o "_" \o ToString(calls) \o "_chunk_" \o Pad6(ToString(i))

\* ingest.py:191: the id of the record of the chunk at position i (from 0)
RecordId(n, i) == n \o "_chunk_" \o Pad6(ToString(i))

\* mutant: ids that count from 0 again in every batch
Docs_IdPerBatch(ch, n) ==
    [k \in 1..Len(ch) |-> [_id |-> RecordId(n, (k - 1) % BatchSize),
                           fields |-> << <<"text", Str(ch[k])>> >>]]

\* ingest.py:188-194: docs, one per chunk, in chunk order
Docs(ch, n) ==
    [k \in 1..Len(ch) |-> [_id |-> RecordId(n, k - 1), fields |-> << <<"text", Str(ch[k])>> >>]]

\* ingest.py:150-156, 201: batch_efficiently(docs, 50)
NumBatches(len) == (len + BatchSize - 1) \div BatchSize
Batch(ds, b) == SubSeq(ds, (b - 1) * BatchSize + 1, Min(b * BatchSize, Len(ds)))
BatchDocs(b) == LET batch == Batch(docs, b) IN {batch[k] : k \in 1..Len(batch)}
BatchLen(b) == Len(Batch(docs, b))
M == NumBatches(Len(chunks))

\* the per-call state at the start of parallel_upsert_complete(ch, n)
EnterUpsert(ch, n) ==
    /\ i_pc' = "list_indexes"
    /\ chunks' = ch
    /\ namespace' = n
    /\ docs' = <<>>
    /\ exists_seen' = FALSE
    /\ ready_seen' = FALSE
    /\ describe_polls' = 0
    /\ submitted' = 0
    /\ w_state' = [b \in 1..NumBatches(Len(ch)) |-> "queued"]
    /\ upsert_attempt' = [b \in 1..NumBatches(Len(ch)) |-> 0]
    /\ upsert_calls' = [b \in 1..NumBatches(Len(ch)) |-> 0]
    /\ delays' = [b \in 1..NumBatches(Len(ch)) |-> <<>>]
    /\ w_result' = [b \in 1..NumBatches(Len(ch)) |-> -1]
    /\ applied' = {}
    /\ rewritten' = {}
    /\ collected' = 0
    /\ timed_out' = {}
    /\ uploaded_count' = 0
    /\ failed_count' = 0
    /\ i_ret' = "none"
    /\ calls' = calls + 1
    /\ i_error' = "none"

\* ingest.py:175: where the call goes once list_indexes has answered
AfterListIndexes(present) == IF present THEN "build" ELSE "create_index"

\* ingest.py:175: pc.list_indexes().names()
ListIndexes ==
    /\ i_pc = "list_indexes"
    /\ \/ /\ i_pc' = AfterListIndexes(indexState # "absent")
          /\ exists_seen' = (indexState # "absent")
          /\ UNCHANGED i_error
       \/ /\ i_pc' = "raised"
          /\ i_error' = "store_error"
          /\ UNCHANGED exists_seen
    /\ UNCHANGED <<chunks, namespace, docs, ready_seen, describe_polls, submitted, w_state,
                   upsert_attempt, upsert_calls, delays, w_result, applied, rewritten, collected,
                   timed_out, uploaded_count, failed_count, i_ret, calls>>
    /\ UNCHANGED <<storeVars, searchVars, pipeVars>>
    /\ UNCHANGED <<chunkVars, allocVars, extractVars, decideVars>>

\* ingest.py:177-181: pc.create_index; the store refuses a name that exists,
\* and the exception leaves parallel_upsert_complete (no try around the call)
CreateIndex ==
    /\ i_pc = "create_index"
    /\ \/ /\ indexState = "absent"
          /\ indexState' = "creating"
          /\ exists_seen' = TRUE
          /\ i_pc' = "wait_ready"
          /\ UNCHANGED i_error
       \/ /\ indexState # "absent"
          /\ i_pc' = "raised"
          /\ i_error' = "already_exists"
          /\ UNCHANGED <<indexState, exists_seen>>
       \/ /\ i_pc' = "raised"
          /\ i_error' = "store_error"
          /\ UNCHANGED <<indexState, exists_seen>>
    /\ UNCHANGED store
    /\ UNCHANGED <<chunks, namespace, docs, ready_seen, describe_polls, submitted, w_state,
                   upsert_attempt, upsert_calls, delays, w_result, applied, rewritten, collected,
                   timed_out, uploaded_count, failed_count, i_ret, calls>>
    /\ UNCHANGED <<searchVars, pipeVars>>
    /\ UNCHANGED <<chunkVars, allocVars, extractVars, decideVars>>

\* ingest.py:182-184: one describe_index poll of the wait loop. The loop has no
\* bound of its own; MaxPolls bounds the polls the model follows.
DescribeIndex ==
    /\ i_pc = "wait_ready"
    /\ \/ /\ indexState = "ready"
          /\ ready_seen' = TRUE
          /\ describe_polls' = describe_polls + 1
          /\ i_pc' = "build"
          /\ UNCHANGED i_error
       \/ /\ indexState # "ready"
          /\ describe_polls < MaxPolls
          /\ describe_polls' = describe_polls + 1
          /\ UNCHANGED <<ready_seen, i_pc, i_error>>
       \/ /\ i_pc' = "raised"
          /\ i_error' = "store_error"
          /\ UNCHANGED <<ready_seen, describe_polls>>
    /\ UNCHANGED <<chunks, namespace, docs, exists_seen, submitted, w_state,
                   upsert_attempt, upsert_calls, delays, w_result, applied, rewritten, collected,
                   timed_out, uploaded_count, failed_count, i_ret, calls>>
    /\ UNCHANGED <<storeVars, searchVars, pipeVars>>
    /\ UNCHANGED <<chunkVars, allocVars, extractVars, decideVars>>

\* ingest.py:186-199: the records are built and the executor is started
BuildDocs ==
    /\ i_pc = "build"
    /\ docs' = Docs(chunks, namespace)
    /\ i_pc' = "submit"
    /\ UNCHANGED <<chunks, namespace, exists_seen, ready_seen, describe_polls, submitted,
                   w_state, upsert_attempt, upsert_calls, delays, w_result, applied,
                   rewritten, collected, timed_out, uploaded_count, failed_count, i_ret, calls, i_error>>
    /\ UNCHANGED <<storeVars, searchVars, pipeVars>>
    /\ UNCHANGED <<chunkVars, allocVars, extractVars, decideVars>>

\* ingest.py:201-203: executor.submit of the next batch
SubmitBatch ==
    /\ i_pc = "submit"
    /\ submitted < M
    /\ submitted' = submitted + 1
    /\ UNCHANGED <<i_pc, chunks, namespace, docs, exists_seen, ready_seen, describe_polls, w_state,
                   upsert_attempt, upsert_calls, delays, w_result, applied, rewritten, collected,
                   timed_out, uploaded_count, failed_count, i_ret, calls, i_error>>
    /\ UNCHANGED <<storeVars, searchVars, pipeVars>>
    /\ UNCHANGED <<chunkVars, allocVars, extractVars, decideVars>>

\* what one upsert_records call may do: succeed, raise without effect, or raise
\* after the records were written (the answer was lost)
UpsertOutcomes == {"ok", "raise", "written_raise"}

\* mutant: the same sleep after every failed attempt
BackoffDelay_Constant(a) == 1

\* ingest.py:169: the sleep after failed attempt a (from 0)
BackoffDelay(a) == 1 * (a + 1)

\* ingest.py:164: the attempt that is not retried
LastAttempt(a) == a = UpsertMaxRetries - 1

\* mutant: a pool that starts a thread for every submitted batch
WorkerFree_Unbounded(states) == TRUE

\* ingest.py:199: ThreadPoolExecutor(max_workers=20): a queued batch is taken
\* up only while fewer than max_workers workers are busy
WorkerFree(states) ==
    Cardinality({c \in DOMAIN states : states[c] = "running"}) < MaxWorkers

\* ingest.py:159-170: one iteration of robust_batch_upsert for batch b
UpsertRecords(b) ==
    /\ i_pc = "submit"
    /\ b <= submitted
    /\ w_state[b] # "done"
    /\ w_state[b] = "queued" => WorkerFree(w_state)
    /\ \E o \in UpsertOutcomes :
         /\ upsert_calls' = [upsert_calls EXCEPT ![b] = @ + 1]
         /\ store' = IF o = "raise" THEN store ELSE Upsert(store, BatchDocs(b), namespace)
         /\ applied' = IF o = "raise" THEN applied ELSE applied \cup {b}
         /\ rewritten' = IF o # "raise" /\ b \in applied THEN rewritten \cup {b} ELSE rewritten
         /\ IF o = "ok"
            THEN /\ w_result' = [w_result EXCEPT ![b] = BatchLen(b)]
                 /\ w_state' = [w_state EXCEPT ![b] = "done"]
                 /\ UNCHANGED <<upsert_attempt, delays>>
            ELSE IF LastAttempt(upsert_attempt[b])
            THEN /\ w_result' = [w_result EXCEPT ![b] = 0]
                 /\ w_state' = [w_state EXCEPT ![b] = "done"]
                 /\ UNCHANGED <<upsert_attempt, delays>>
            ELSE /\ delays' = [delays EXCEPT ![b] = Append(@, BackoffDelay(upsert_attempt[b]))]
                 /\ upsert_attempt' = [upsert_attempt EXCEPT ![b] = @ + 1]
                 /\ w_state' = [w_state EXCEPT ![b] = "running"]
                 /\ UNCHANGED w_result
    /\ UNCHANGED indexState
    /\ UNCHANGED <<i_pc, chunks, namespace, docs, exists_seen, ready_seen, describe_polls,
                   submitted, collected, timed_out, uploaded_count, failed_count, i_ret, calls, i_error>>
    /\ UNCHANGED <<searchVars, pipeVars>>
    /\ UNCHANGED <<chunkVars, allocVars, extractVars, decideVars>>

\* mutant: a batch that returned 0 is not counted as failed
CountResult_FailedNotCounted(up, failed, result) == [uploaded |-> up + result, failed |-> failed]

\* ingest.py:202: some worker of the pool runs an iteration of its batch
WorkerStep == \E b \in 1..M : UpsertRecords(b)

\* how far the worker of batch b has come: not started, between its attempts,
\* done
Progress(b) ==
    IF w_state[b] = "queued" THEN 0 ELSE IF w_state[b] = "running" THEN 1 ELSE 2

\* the schedules that fill the pool: the store raises, without effect, on the
\* first upsert of a batch and accepts the second, and the workers advance in
\* submission order
InSubmissionOrder ==
    /\ \A b \in 1..(M - 1) : Progress(b) >= Progress(b + 1)
    /\ \A b \in 1..M : w_state[b] = "running" => upsert_calls[b] = 1
    /\ \A b \in 1..M : w_state[b] = "done" => (upsert_calls[b] = 2 /\ w_result[b] > 0)
    /\ applied = {b \in 1..M : w_state[b] = "done"}

\* ingest.py:202: a worker step of such a schedule
OrderedWorkerStep == WorkerStep /\ InSubmissionOrder'

\* ingest.py:211-215: the counters after a future gave its result
CountResult(up, failed, result) ==
    [uploaded |-> up + result, failed |-> IF result > 0 THEN failed ELSE failed + 1]

\* ingest.py:207-215: future.result of the next future, its worker being done
FutureResult ==
    /\ i_pc = "submit"
    /\ submitted = M
    /\ collected < M
    /\ w_state[collected + 1] = "done"
    /\ LET c == CountResult(uploaded_count, failed_count, w_result[collected + 1])
       IN /\ uploaded_count' = c.uploaded
          /\ failed_count' = c.failed
    /\ collected' = collected + 1
    /\ UNCHANGED <<i_pc, chunks, namespace, docs, exists_seen, ready_seen, describe_polls,
                   submitted, w_state, upsert_attempt, upsert_calls, delays, w_result,
                   applied, rewritten, timed_out, i_ret, calls, i_error>>
    /\ UNCHANGED <<storeVars, searchVars, pipeVars>>
    /\ UNCHANGED <<chunkVars, allocVars, extractVars, decideVars>>

\* ingest.py:209, 216-218: future.result(timeout=45) raised while the worker still runs
FutureTimeout ==
    /\ i_pc = "submit"
    /\ submitted = M
    /\ collected < M
    /\ w_state[collected + 1] # "done"
    /\ failed_count' = failed_count + 1
    /\ timed_out' = timed_out \cup {collected + 1}
    /\ collected' = collected + 1
    /\ UNCHANGED <<i_pc, chunks, namespace, docs, exists_seen, ready_seen, describe_polls,
                   submitted, w_state, upsert_attempt, upsert_calls, delays, w_result,
                   applied, rewritten, uploaded_count, i_ret, calls, i_error>>
    /\ UNCHANGED <<storeVars, searchVars, pipeVars>>
    /\ UNCHANGED <<chunkVars, allocVars, extractVars, decideVars>>

\* ingest.py:199, 220-226: the executor's with block ends once every worker is
\* done; the call returns uploaded_count > 0
UpsertReturn ==
    /\ i_pc = "submit"
    /\ submitted = M
    /\ collected = M
    /\ \A b \in 1..M : w_state[b] = "done"
    /\ i_ret' = (uploaded_count > 0)
    /\ i_pc' = "returned"
    /\ UNCHANGED <<chunks, namespace, docs, exists_seen, ready_seen, describe_polls,
                   submitted, w_state, upsert_attempt, upsert_calls, delays, w_result,
                   applied, rewritten, collected, timed_out, uploaded_count, failed_count, calls, i_error>>
    /\ UNCHANGED <<storeVars, searchVars, pipeVars>>
    /\ UNCHANGED <<chunkVars, allocVars, extractVars, decideVars>>

\* ingest.py:220-224: success_rate < 90, success_rate being
\* (uploaded_count / len(chunks)) * 100, or 0 for no chunk
LowSuccessRate(up, n) == IF n > 0 THEN up * 100 < QualityThreshold * n ELSE 0 < QualityThreshold

\* the same chunk list is written again under the same namespace
UpsertAgain ==
    /\ i_pc = "returned"
    /\ calls < MaxCalls
    /\ EnterUpsert(chunks, namespace)
    /\ UNCHANGED <<storeVars, searchVars, pipeVars>>
    /\ UNCHANGED <<chunkVars, allocVars, extractVars, decideVars>>

\* the store finishes creating the index
IndexBecomesReady ==
    /\ indexState = "creating"
    /\ indexState' = "ready"
    /\ UNCHANGED <<store, searchVars, ingestVars, pipeVars>>
    /\ UNCHANGED <<chunkVars, allocVars, extractVars, decideVars>>

\* another ingestion request creates the index (ingest.py:177 in its own call)
OtherCreatesIndex ==
    /\ indexState = "absent"
    /\ indexState' = "creating"
    /\ UNCHANGED <<store, searchVars, ingestVars, pipeVars>>
    /\ UNCHANGED <<chunkVars, allocVars, extractVars, decideVars>>

\* chunk lists of no chunk, of one full batch, and of 1..MaxBatches batches the last
\* of which holds one record
ChunkCounts == {0, BatchSize} \cup {(b - 1) * BatchSize + 1 : b \in 1..MaxBatches}
ChunkList(len) == [k \in 1..len |-> "chunk text " \o ToString(k)]

\* ------------------------------------------------ intelligent_text_chunking
\* a Python str is a sequence of characters here, so that it can be cut anywhere
Whitespace == {" ", "\n"}
Terminators == {".", "!", "?"}

RECURSIVE LStrip(_)
LStrip(str) ==
    IF str # <<>> /\ Head(str) \in Whitespace THEN LStrip(Tail(str)) ELSE str

RECURSIVE RStrip(_)
RStrip(str) ==
    IF str # <<>> /\ str[Len(str)] \in Whitespace
    THEN RStrip(SubSeq(str, 1, Len(str) - 1)) ELSE str

\* str.strip()
Strip(str) == RStrip(LStrip(str))

RECURSIVE SplitFrom(_, _, _, _)
\* ingest.py:82-89: the loop over the characters of the text from position i on,
\* current_sentence being cur and sentences being acc
SplitFrom(txt, i, cur, acc) ==
    IF i > Len(txt)
    THEN (IF Strip(cur) # <<>> THEN Append(acc, Strip(cur)) ELSE acc)
    ELSE LET current_sentence == Append(cur, txt[i])
         IN IF txt[i] \in Terminators /\ Len(current_sentence) > MinSentenceLen
            THEN SplitFrom(txt, i + 1, <<>>, Append(acc, Strip(current_sentence)))
            ELSE SplitFrom(txt, i + 1, current_sentence, acc)

\* ingest.py:79-89
Sentences(txt) == SplitFrom(txt, 1, <<>>, <<>>)

RECURSIVE WordsFrom(_, _, _, _)
WordsFrom(str, i, cur, acc) ==
    IF i > Len(str) THEN (IF cur # <<>> THEN Append(acc, cur) ELSE acc)
    ELSE IF str[i] \in Whitespace
         THEN WordsFrom(str, i + 1, <<>>, IF cur # <<>> THEN Append(acc, cur) ELSE acc)
         ELSE WordsFrom(str, i + 1, Append(cur, str[i]), acc)

\* str.split(): the maximal runs of characters that are not whitespace
Words(str) == WordsFrom(str, 1, <<>>, <<>>)

RECURSIVE Join(_)
\* " ".join(words)
Join(words) ==
    IF words = <<>> THEN <<>>
    ELSE IF Len(words) = 1 THEN words[1]
    ELSE words[1] \o <<" ">> \o Join(Tail(words))

RECURSIVE OverlapFrom(_, _, _, _, _)
\* ingest.py:110-115: the loop over reversed(words) from position k down
OverlapFrom(words, k, overlap_words, overlap_length, overlap_chars) ==
    IF k = 0 THEN overlap_words
    ELSE IF overlap_length + Len(words[k]) + 1 <= overlap_chars
         THEN OverlapFrom(words, k - 1, <<words[k]>> \o overlap_words,
                          overlap_length + Len(words[k]) + 1, overlap_chars)
         ELSE overlap_words

\* ingest.py:106-117: the overlap taken from the chunk just closed
OverlapOf(chunk, overlap_chars) ==
    Join(OverlapFrom(Words(chunk), Len(Words(chunk)), <<>>, 0, overlap_chars))

\* ingest.py:98, 119: a + " " + b if a else b
SpaceJoin(a, b) == IF a # <<>> THEN a \o <<" ">> \o b ELSE b

RECURSIVE Dedup(_, _)
\* ingest.py:124-125: the blank chunks dropped, then list(dict.fromkeys(chunks))
Dedup(list, acc) ==
    IF list = <<>> THEN acc
    ELSE IF Strip(Head(list)) = <<>> \/ \E k \in 1..Len(acc) : acc[k] = Head(list)
         THEN Dedup(Tail(list), acc)
         ELSE Dedup(Tail(list), Append(acc, Head(list)))

\* ingest.py:76-77
max_chars == max_tokens * CharsPerToken
overlap_chars == overlap_tokens * CharsPerToken

\* ingest.py:79-91: the text is cut into sentences
SplitSentences ==
    /\ c_pc = "split"
    /\ sentences' = Sentences(text)
    /\ si' = 1
    /\ c_pc' = "accumulate"
    /\ UNCHANGED <<text, max_tokens, overlap_tokens, c_chunks, current_chunk,
                   overlap_buffer, c_ret>>
    /\ UNCHANGED <<storeVars, searchVars, ingestVars, pipeVars, allocVars, extractVars, decideVars>>

\* ingest.py:97-119: one iteration of the loop over the sentences
AddSentence ==
    /\ c_pc = "accumulate"
    /\ si <= Len(sentences)
    /\ LET sentence == sentences[si]
           test_chunk == SpaceJoin(current_chunk, sentence)
           closed == current_chunk # <<>>
           buffer == IF closed THEN OverlapOf(current_chunk, overlap_chars)
                     ELSE overlap_buffer
       IN IF Len(test_chunk) <= max_chars
          THEN /\ current_chunk' = test_chunk
               /\ UNCHANGED <<c_chunks, overlap_buffer>>
          ELSE /\ c_chunks' = IF closed THEN Append(c_chunks, Strip(current_chunk))
                              ELSE c_chunks
               /\ overlap_buffer' = buffer
               /\ current_chunk' = SpaceJoin(buffer, sentence)
    /\ si' = si + 1
    /\ UNCHANGED <<c_pc, text, max_tokens, overlap_tokens, sentences, c_ret>>
    /\ UNCHANGED <<storeVars, searchVars, ingestVars, pipeVars, allocVars, extractVars, decideVars>>

\* ingest.py:121-138: the last chunk is closed, blank and repeated chunks are
\* dropped, the list is returned
ReturnChunks ==
    /\ c_pc = "accumulate"
    /\ si > Len(sentences)
    /\ LET all == IF current_chunk # <<>> THEN Append(c_chunks, Strip(current_chunk))
                  ELSE c_chunks
       IN /\ c_chunks' = Dedup(all, <<>>)
          /\ c_ret' = Dedup(all, <<>>)
    /\ c_pc' = "done"
    /\ UNCHANGED <<text, max_tokens, overlap_tokens, sentences, si, current_chunk,
                   overlap_buffer>>
    /\ UNCHANGED <<storeVars, searchVars, ingestVars, pipeVars, allocVars, extractVars, decideVars>>

\* sample texts: runs of the pieces below, which hold a long word, a short word,
\* a short word that ends a sentence and a decimal number
Chars(c, n) == [k \in 1..n |-> c]
Pieces == {Chars("a", 12) \o <<" ">>,
           Chars("b", 4) \o <<" ">>,
           Chars("b", 4) \o <<".", " ">>,
           <<"3", ".", "5", " ">>}

RECURSIVE Texts(_)
Texts(n) ==
    IF n = 0 THEN {<<>>}
    ELSE LET shorter == Texts(n - 1)
         IN shorter \cup {t \o piece : t \in shorter, piece \in Pieces}

MaxTokensArgs == {6, 8}
OverlapTokensArgs == {0, 2}

\* -------------------------------------------------- create_unique_namespace
RECURSIVE Pad3(_)
\* ingest.py:141: %f cut to its first three digits, the milliseconds
Pad3(digits) == IF Len(digits) >= 3 THEN digits ELSE Pad3("0" \o digits)

\* ingest.py:141: strftime("%Y%m%d_%H%M%S_%f")[:-3] at millisecond t of the clock
Timestamp(t) == "20250101_120000_" \o Pad3(ToString(t))

\* ingest.py:142: the values str(uuid4())[:8] may take (their 32 bits as a number)
UuidPrefixes == {1, 2}

\* ingest.py:143: the processes that serve requests
Pids == {11, 12}

\* ingest.py:144
Combined(t, unique_id, process_id) ==
    [timestamp |-> t, unique_id |-> unique_id, process_id |-> process_id]

\* ingest.py:145: hexdigest()[:8] has 16^8 values for any number of inputs, so
\* distinct inputs can have the same prefix; here three values
HashSuffixes == <<"0cc175b9", "92eb5ffe", "4a8a08f0">>
Md5Prefix(combined) ==
    HashSuffixes[((combined.timestamp * 7 + combined.unique_id * 5 + combined.process_id)
                    % Len(HashSuffixes)) + 1]

\* mutant: the namespace is the hash suffix alone
NamespaceName_NoTimestamp(t, hash_suffix) == "doc_" \o hash_suffix

\* ingest.py:146
NamespaceName(t, hash_suffix) == "doc_" \o Timestamp(t) \o "_" \o hash_suffix

\* ingest.py:140-148: one call, in process process_id, at the clock's millisecond
CreateUniqueNamespace ==
    /\ Len(ns_calls) < MaxNsCalls
    /\ \E unique_id \in UuidPrefixes, process_id \in Pids :
         LET hash_suffix == Md5Prefix(Combined(clock, unique_id, process_id))
         IN ns_calls' = Append(ns_calls,
                [timestamp |-> Timestamp(clock), unique_id |-> unique_id,
                 process_id |-> process_id, hash_suffix |-> hash_suffix,
                 namespace |-> NamespaceName(clock, hash_suffix)])
    /\ UNCHANGED clock
    /\ UNCHANGED <<storeVars, searchVars, ingestVars, pipeVars, chunkVars, extractVars, decideVars>>

\* a millisecond passes
ClockTick ==
    /\ clock < MaxClock
    /\ clock' = clock + 1
    /\ UNCHANGED ns_calls
    /\ UNCHANGED <<storeVars, searchVars, ingestVars, pipeVars, chunkVars, extractVars, decideVars>>

\* ------------------------------------------- extract_complete_text_from_pdf
Unbound == "unbound"
\* the name tempfile.NamedTemporaryFile gives the file of this call
TempName == "tmp_call.pdf"
\* a file of the temporary directory that is not this call's
OtherFile == "tmp_other.pdf"

PageOutcomes == {"text", "blank", "error"}
Documents(n) == UNION {[1..k -> PageOutcomes] : k \in 0..n}

\* ingest.py:68: the except clause catches e
Caught(e) ==
    /\ e_pc' = "except"
    /\ e_error' = e

\* ingest.py:26-27: requests.get and raise_for_status
RequestsGet ==
    /\ e_pc = "get"
    /\ \/ e_pc' = "tempfile" /\ UNCHANGED e_error
       \/ Caught("fetch")
    /\ UNCHANGED <<body, pdf_pages, temp_files, temp_path, written, page_num, full_text, e_ret>>
    /\ UNCHANGED <<storeVars, searchVars, ingestVars, pipeVars, chunkVars, allocVars, decideVars>>

\* ingest.py:29-30: the temporary file is created (delete=False) and its name
\* bound to temp_path
NamedTemporaryFile ==
    /\ e_pc = "tempfile"
    /\ \/ /\ temp_files' = temp_files \cup {TempName}
          /\ temp_path' = TempName
          /\ e_pc' = "download"
          /\ UNCHANGED e_error
       \/ /\ Caught("tempfile")
          /\ UNCHANGED <<temp_files, temp_path>>
    /\ UNCHANGED <<body, pdf_pages, written, page_num, full_text, e_ret>>
    /\ UNCHANGED <<storeVars, searchVars, ingestVars, pipeVars, chunkVars, allocVars, decideVars>>

\* ingest.py:32-34: one turn of the download loop; the with block closes the
\* file, and does not delete it, when the loop ends or raises
WriteChunk ==
    /\ e_pc = "download"
    /\ \/ /\ written < body
          /\ written' = written + 1
          /\ UNCHANGED <<e_pc, e_error>>
       \/ /\ written = body
          /\ e_pc' = "read_pdf"
          /\ UNCHANGED <<written, e_error>>
       \/ /\ Caught("download")
          /\ UNCHANGED written
    /\ UNCHANGED <<body, pdf_pages, temp_files, temp_path, page_num, full_text, e_ret>>
    /\ UNCHANGED <<storeVars, searchVars, ingestVars, pipeVars, chunkVars, allocVars, decideVars>>

\* ingest.py:38-42: PdfReader(temp_path) and len(reader.pages)
ReadPdf ==
    /\ e_pc = "read_pdf"
    /\ \/ e_pc' = "pages" /\ UNCHANGED e_error
       \/ Caught("parse")
    /\ UNCHANGED <<body, pdf_pages, temp_files, temp_path, written, page_num, full_text, e_ret>>
    /\ UNCHANGED <<storeVars, searchVars, ingestVars, pipeVars, chunkVars, allocVars, decideVars>>

\* ingest.py:45-57: one page; an error of the page is caught inside the loop
ExtractPage ==
    /\ e_pc = "pages"
    /\ page_num < Len(pdf_pages)
    /\ page_num' = page_num + 1
    /\ full_text' = IF pdf_pages[page_num + 1] = "text"
                    THEN Append(full_text, page_num + 1)
                    ELSE full_text
    /\ UNCHANGED <<e_pc, body, pdf_pages, temp_files, temp_path, written, e_error, e_ret>>
    /\ UNCHANGED <<storeVars, searchVars, ingestVars, pipeVars, chunkVars, allocVars, decideVars>>

\* ingest.py:59: os.unlink(temp_path) after the page loop
Unlink ==
    /\ e_pc = "pages"
    /\ page_num = Len(pdf_pages)
    /\ temp_files' = temp_files \ {temp_path}
    /\ e_pc' = "check_text"
    /\ UNCHANGED <<body, pdf_pages, temp_path, written, page_num, full_text, e_error, e_ret>>
    /\ UNCHANGED <<storeVars, searchVars, ingestVars, pipeVars, chunkVars, allocVars, decideVars>>

\* ingest.py:63-66
CheckText ==
    /\ e_pc = "check_text"
    /\ IF full_text = <<>>
       THEN Caught("empty") /\ UNCHANGED e_ret
       ELSE e_pc' = "returned" /\ e_ret' = full_text /\ UNCHANGED e_error
    /\ UNCHANGED <<body, pdf_pages, temp_files, temp_path, written, page_num, full_text>>
    /\ UNCHANGED <<storeVars, searchVars, ingestVars, pipeVars, chunkVars, allocVars, decideVars>>

CleanupNeeded_Never(path, files) == FALSE
\* ingest.py:69: 'temp_path' in locals() and os.path.exists(temp_path)
CleanupNeeded(path, files) == path # Unbound /\ path \in files

\* ingest.py:68-71: the except clause
ExceptClause ==
    /\ e_pc = "except"
    /\ temp_files' = IF CleanupNeeded(temp_path, temp_files)
                     THEN temp_files \ {temp_path}
                     ELSE temp_files
    /\ e_pc' = "raised"
    /\ UNCHANGED <<body, pdf_pages, temp_path, written, page_num, full_text, e_error, e_ret>>
    /\ UNCHANGED <<storeVars, searchVars, ingestVars, pipeVars, chunkVars, allocVars, decideVars>>

\* ------------------------------ get_document_answers and make_groq_request
LackOfInformation ==
    "Answer could not be generated due to lack of relevant document information."
ResponseIssues == "Answer could not be generated due to API response issues."
InsufficientContext ==
    "Answer could not be generated due to insufficient document context."
AuthenticationFailed == "API key authentication failed"
FailedAfter(n) == "Failed after " \o ToString(n) \o " attempts"
ErrorAnswer(e) == "Answer could not be generated: " \o e

NoText == <<"<", "n", "o", " ", "t", "e", "x", "t", ">">>

\* decide.py:109
NoRelevantClauses(clauses) ==
    \/ clauses = <<>>
    \/ \A k \in 1..Len(clauses) : Strip(clauses[k]) \in {<<>>, NoText}

RECURSIVE Remove(_, _)
\* str.replace(sub, "")
Remove(str, sub) ==
    IF Len(str) < Len(sub) THEN str
    ELSE IF SubSeq(str, 1, Len(sub)) = sub
         THEN Remove(SubSeq(str, Len(sub) + 1, Len(str)), sub)
         ELSE <<Head(str)>> \o Remove(Tail(str), sub)

LowerChar(c) ==
    CASE c = "A" -> "a" [] c = "D" -> "d" [] c = "R" -> "r" [] c = "T" -> "t"
      [] c = "I" -> "i" [] c = "N" -> "n" [] c = "Y" -> "y" [] OTHER -> c
\* str.lower()
Lower(str) == [k \in 1..Len(str) |-> LowerChar(str[k])]
\* str.startswith(prefix)
StartsWith(str, prefix) ==
    Len(str) >= Len(prefix) /\ SubSeq(str, 1, Len(prefix)) = prefix

\* decide.py:160
PrefixesToRemove == <<<<"a", "n", "s", "w", "e", "r", ":">>,
                      <<"r", "e", "s", "p", "o", "n", "s", "e", ":">>,
                      <<"d", "e", "c", "i", "s", "i", "o", "n", ":">>,
                      <<"t", "h", "e", " ", "a", "n", "s", "w", "e", "r", " ", "i", "s", ":">>>>
\* decide.py:166
FormattingChars == <<<<"*", "*">>, <<"*">>, <<"_">>, <<"#", "#">>, <<"#">>>>

RECURSIVE RemovePrefixes(_, _)
\* decide.py:161-163: the loop over the prefixes, from prefix k on
RemovePrefixes(content, k) ==
    IF k > Len(PrefixesToRemove) THEN content
    ELSE IF StartsWith(Lower(content), PrefixesToRemove[k])
         THEN RemovePrefixes(
                  Strip(SubSeq(content, Len(PrefixesToRemove[k]) + 1, Len(content))), k + 1)
         ELSE RemovePrefixes(content, k + 1)

RECURSIVE RemoveFormatting(_, _)
\* decide.py:167-168
RemoveFormatting(content, k) ==
    IF k > Len(FormattingChars) THEN content
    ELSE RemoveFormatting(Remove(content, FormattingChars[k]), k + 1)

RECURSIVE AsString(_)
\* the characters of a str as one string value
AsString(str) == IF str = <<>> THEN "" ELSE Head(str) \o AsString(Tail(str))

\* decide.py:154-171: the answer made of the content of the first choice
Clean(content) ==
    LET stripped == Strip(content)
        unquoted == Strip(Remove(stripped, <<"\"">>))
        unprefixed == RemovePrefixes(unquoted, 1)
        plain == RemoveFormatting(unprefixed, 1)
    IN  IF plain = <<>> THEN InsufficientContext ELSE AsString(plain)

\* decide.py:144-174: the answer appended for the dict make_groq_request returned
AnswerFor(result) ==
    IF "error" \in DOMAIN result THEN ErrorAnswer(result.error)
    ELSE IF "choices" \notin DOMAIN result \/ result.choices = <<>> THEN ResponseIssues
    ELSE Clean(result.choices[1].message.content)

AnswersAfter_ErrorSkipped(list, result) ==
    IF "error" \in DOMAIN result THEN list ELSE Append(list, AnswerFor(result))
\* decide.py:146, 151, 174: answers.append on every branch
AnswersAfter(list, result) == Append(list, AnswerFor(result))

\* the bodies a 200 response may carry
WithContent(c) == [choices |-> <<[message |-> [content |-> c]]>>]
ResponseContents == {<<"Y", "e", "s", ",", " ", "c", "o", "v", "e", "r", "e", "d", ".">>,
                     <<" ", "\"", "A", "n", "s", "w", "e", "r", ":", " ", "*", "*", "N", "o", "t", " ", "c", "o", "v", "e", "r", "e", "d", "*", "*", "\"", " ">>,
                     <<"*", "*">>}
JsonBodies == {[id |-> "x"], [choices |-> <<>>]} \cup {WithContent(c) : c \in ResponseContents}
NoBody == [id |-> "none"]
\* what one requests.post may end in: a response of some status, or an
\* exception (status 0) of the call or of response.json()
PostOutcomes ==
    {[status |-> st, json |-> NoBody] : st \in {0, 401, 404, 429, 500}}
        \cup {[status |-> 200, json |-> b] : b \in JsonBodies}

\* decide.py:58-66, 68-82: the branches that go on with the next attempt: 429,
\* a server error, an error status raised by raise_for_status, an exception
Continues(r) ==
    \/ r.status = 429
    \/ r.status # 401 /\ r.status >= 400
    \/ r.status = 0

\* decide.py:102-112, 142: the head of the loop for one pair
NextPair ==
    /\ d_pc = "loop"
    /\ d_i <= Len(qa_pairs)
    /\ IF NoRelevantClauses(qa_pairs[d_i].related_clauses)
       THEN /\ answers' = Append(answers, LackOfInformation)
            /\ answered' = Append(answered, d_i)
            /\ d_i' = d_i + 1
            /\ UNCHANGED <<d_pc, g_attempt>>
       ELSE /\ d_pc' = "request"
            /\ g_attempt' = 0
            /\ UNCHANGED <<d_i, answers, answered>>
    /\ UNCHANGED <<qa_pairs, posts, last_status, d_ret>>
    /\ UNCHANGED <<storeVars, searchVars, ingestVars, pipeVars, chunkVars, allocVars, extractVars>>

\* decide.py:47-84 and 142-174: one attempt of make_groq_request and, when it
\* ends the call, the answer get_document_answers appends for its result
GroqPost ==
    /\ d_pc = "request"
    /\ g_attempt < GroqMaxRetries
    /\ \E r \in PostOutcomes :
         LET last == g_attempt + 1 = GroqMaxRetries
             result == IF Continues(r) THEN [error |-> FailedAfter(GroqMaxRetries)]
                       ELSE IF r.status = 401 THEN [error |-> AuthenticationFailed]
                       ELSE r.json
         IN  /\ posts' = [posts EXCEPT ![d_i] = @ + 1]
             /\ last_status' = [last_status EXCEPT ![d_i] = r.status]
             /\ IF Continues(r) /\ ~last
                THEN /\ g_attempt' = g_attempt + 1
                     /\ UNCHANGED <<d_pc, d_i, answers, answered>>
                ELSE /\ answers' = AnswersAfter(answers, result)
                     /\ answered' = IF answers' # answers THEN Append(answered, d_i)
                                    ELSE answered
                     /\ d_i' = d_i + 1
                     /\ d_pc' = "loop"
                     /\ UNCHANGED g_attempt
    /\ UNCHANGED <<qa_pairs, d_ret>>
    /\ UNCHANGED <<storeVars, searchVars, ingestVars, pipeVars, chunkVars, allocVars, extractVars>>

\* decide.py:176-178
DecideReturn ==
    /\ d_pc = "loop"
    /\ d_i > Len(qa_pairs)
    /\ d_ret' = [answers |-> answers]
    /\ d_pc' = "returned"
    /\ UNCHANGED <<qa_pairs, d_i, answers, answered, g_attempt, posts, last_status>>
    /\ UNCHANGED <<storeVars, searchVars, ingestVars, pipeVars, chunkVars, allocVars, extractVars>>

\* ------------------------------- process_and_ingest_complete and run_pipeline
AUTHORIZED_TOKEN == "d742ec2aaf3cd69400711966ec8db56a156c9f0404f7cce41808e3c6e9ede8c8"

\* main.py:34
Authorized(a) == a.scheme = "Bearer" /\ a.token = AUTHORIZED_TOKEN

\* main.py:34-35
CheckAuthorization ==
    /\ p_pc = "auth"
    /\ IF Authorized(authorization)
       THEN p_pc' = "ingest" /\ UNCHANGED http_status
       ELSE p_pc' = "responded" /\ http_status' = 401
    /\ UNCHANGED <<authorization, extracted, input_questions, ingest_ret, search_args>>
    /\ UNCHANGED <<storeVars, searchVars, ingestVars>>
    /\ UNCHANGED <<chunkVars, allocVars, extractVars, decideVars>>

\* ingest.py:140-148, 233: create_unique_namespace; within one request its value
\* is a name under which the index holds nothing yet (CreateUniqueNamespace has
\* the value itself)
AllocateNamespace ==
    /\ p_pc = "ingest"
    /\ \E n \in Namespaces \ {r.ns : r \in store} : namespace' = n
    /\ p_pc' = "extract"
    /\ UNCHANGED <<i_pc, chunks, docs, exists_seen, ready_seen, describe_polls,
                   submitted, w_state, upsert_attempt, upsert_calls, delays, w_result,
                   applied, rewritten, collected, timed_out, uploaded_count, failed_count, i_ret, calls, i_error>>
    /\ UNCHANGED <<authorization, extracted, input_questions, ingest_ret, search_args,
                   http_status>>
    /\ UNCHANGED <<storeVars, searchVars>>
    /\ UNCHANGED <<chunkVars, allocVars, extractVars, decideVars>>

\* ingest.py:260-266: the dict of the except branch, error being str(e)
FailureDict(e) == [namespace |-> "None", success |-> FALSE, error |-> e]

\* ingest.py:71: the message of the exception extract_complete_text_from_pdf raises
ExtractionFailed == "PDF extraction failed"

\* ingest.py:250: the message of the exception raised when nothing was uploaded
UploadFailed == "Upload failed - no content was successfully ingested"

\* the message of an exception of the store's client
StoreError == "store error"

\* ingest.py:252-258
SuccessDict(n, ch) == [namespace |-> n, success |-> TRUE, total_chunks |-> Len(ch)]

\* mutant: the exception of the extraction is swallowed and the ingestion goes on
AfterExtract_GoesOn(outcome, ret) == [pc |-> "chunk", ret |-> ret]

\* ingest.py:232-235, 260-266: where process_and_ingest_complete goes once the
\* extraction has ended, and the dict it returns when the extraction raised
AfterExtract(outcome, ret) ==
    IF outcome = "text" THEN [pc |-> "chunk", ret |-> ret]
    ELSE [pc |-> "search", ret |-> FailureDict(ExtractionFailed)]

\* ingest.py:235, 260-266: extract_complete_text_from_pdf returns the text or raises
\* (fetch failed, the file is no PDF, no page has text)
ExtractText ==
    /\ p_pc = "extract"
    /\ \E outcome \in {"text", "raised"} :
         /\ extracted' = outcome
         /\ p_pc' = AfterExtract(outcome, ingest_ret).pc
         /\ ingest_ret' = AfterExtract(outcome, ingest_ret).ret
    /\ UNCHANGED <<authorization, input_questions, search_args, http_status>>
    /\ UNCHANGED <<storeVars, searchVars, ingestVars>>
    /\ UNCHANGED <<chunkVars, allocVars, extractVars, decideVars>>

\* ingest.py:239-243: the text is chunked (at least one chunk: the text is not
\* blank) and parallel_upsert_complete is entered
ChunkAndUpsert ==
    /\ p_pc = "chunk"
    /\ \E len \in ChunkCounts \ {0} : EnterUpsert(ChunkList(len), namespace)
    /\ p_pc' = "upsert"
    /\ UNCHANGED <<authorization, extracted, input_questions, ingest_ret, search_args,
                   http_status>>
    /\ UNCHANGED <<storeVars, searchVars>>
    /\ UNCHANGED <<chunkVars, allocVars, extractVars, decideVars>>

\* ingest.py:243-266: parallel_upsert_complete returned or raised
IngestReturn ==
    /\ p_pc = "upsert"
    /\ i_pc \in {"returned", "raised"}
    /\ ingest_ret' = IF i_pc = "raised" THEN FailureDict(StoreError)
                     ELSE IF i_ret = TRUE THEN SuccessDict(namespace, chunks)
                     ELSE FailureDict(UploadFailed)
    /\ p_pc' = "search"
    /\ UNCHANGED <<authorization, extracted, input_questions, search_args, http_status>>
    /\ UNCHANGED <<storeVars, searchVars, ingestVars>>
    /\ UNCHANGED <<chunkVars, allocVars, extractVars, decideVars>>

\* main.py:44: the positional arguments of the call search_with_text(input.questions)
SearchCallArgs == <<input_questions>>

\* search.py:19: the parameters without default: questions, ns
RequiredParams == 2

\* main.py:41-68: the value of process_and_ingest is dropped; search_with_text is
\* called; a call with too few arguments raises TypeError, which the handler's
\* except turns into status 500
CallSearch ==
    /\ p_pc = "search"
    /\ search_args' = [called |-> TRUE, args |-> SearchCallArgs]
    /\ IF Len(SearchCallArgs) < RequiredParams
       THEN /\ p_pc' = "responded"
            /\ http_status' = 500
            /\ UNCHANGED searchVars
       ELSE /\ p_pc' = "searching"
            /\ UNCHANGED http_status
            /\ s_pc' = "gate"
            /\ questions' = SearchCallArgs[1]
            /\ ns' = SearchCallArgs[RequiredParams]
            /\ queries' = [i \in 1..Len(SearchCallArgs[1]) |-> 0]
            /\ qi' = 1
            /\ top_k' = DefaultTopK
            /\ max_retries' = DefaultMaxRetries
            /\ UNCHANGED <<attempt, namespace_ready, search_attempt, final_output, polls,
                           poll_positive, poll_raised, failed_all, addressed, s_ret,
                           deletes, responses, last_hits>>
    /\ UNCHANGED <<authorization, extracted, input_questions, ingest_ret>>
    /\ UNCHANGED <<storeVars, ingestVars>>
    /\ UNCHANGED <<chunkVars, allocVars, extractVars, decideVars>>

\* ------------------------------------------------------- sample index content
TextRecord(n, id, field, txt) ==
    [ns |-> n, _id |-> id, fields |-> << <<field, Str(txt)>> >>]

RecA1 == TextRecord("doc_a", "doc_a_chunk_000000", "text", "Clause one: cover starts at inception.")
RecA2 == TextRecord("doc_a", "doc_a_chunk_000001", "chunk_text", "Clause two: waiting period is 30 days.")
RecB1 == TextRecord("doc_b", "doc_b_chunk_000000", "text", "Clause one: cover starts at inception.")
RecD1 == TextRecord("default", "vec1", "text", "left over from an earlier run")

SearchStores == {{RecD1}, {RecA1, RecA2, RecB1, RecD1}}

\* records of other shapes: the text of RecA1 once more, two known fields the
\* lower-ranked of which comes first, unknown fields only (a short string; a
\* number, a short and a long string; a short string before a long one)
RecA3 == TextRecord("doc_a", "doc_a_chunk_000002", "text", "Clause one: cover starts at inception.")
RecA4 == [ns |-> "doc_a", _id |-> "rec4",
          fields |-> << <<"body", Str("Body: a claim is settled within 30 days.")>>,
                        <<"content", Str("Content: the waiting period is 30 days.")>> >>]
RecA5 == TextRecord("doc_a", "rec5", "title", "Waiting period")
RecA6 == [ns |-> "doc_a", _id |-> "rec6",
          fields |-> << <<"page", Num(12)>>, <<"code", Str("WP-30")>>,
                        <<"summary", Str("Summary: cover ends after twelve months.")>> >>]
RecA7 == TextRecord("doc_a", "rec7", "code", "WP-30")

ParseStore == {RecA1, RecA3, RecA4, RecA5, RecA6, RecA7, RecB1}

PipelineIdle ==
    /\ p_pc = "idle"
    /\ authorization = "none" /\ extracted = "none"
    /\ input_questions = <<>> /\ ingest_ret = "none"
    /\ search_args = [called |-> FALSE, args |-> <<>>]
    /\ http_status = 0

IngestIdle ==
    /\ i_pc = "idle"
    /\ chunks = <<>> /\ namespace = "" /\ docs = <<>>
    /\ exists_seen = FALSE /\ ready_seen = FALSE /\ describe_polls = 0
    /\ submitted = 0 /\ w_state = <<>> /\ upsert_attempt = <<>> /\ upsert_calls = <<>>
    /\ delays = <<>> /\ w_result = <<>> /\ applied = {} /\ rewritten = {} /\ collected = 0
    /\ timed_out = {} /\ uploaded_count = 0 /\ failed_count = 0 /\ i_ret = "none"
    /\ calls = 0 /\ i_error = "none"

ChunkIdle ==
    /\ c_pc = "idle"
    /\ text = <<>> /\ max_tokens = 0 /\ overlap_tokens = 0
    /\ sentences = <<>> /\ si = 0 /\ c_chunks = <<>>
    /\ current_chunk = <<>> /\ overlap_buffer = <<>> /\ c_ret = <<>>

AllocIdle == clock = 0 /\ ns_calls = <<>>

DecideIdle ==
    /\ d_pc = "idle"
    /\ qa_pairs = <<>> /\ d_i = 0 /\ answers = <<>> /\ answered = <<>> /\ g_attempt = 0
    /\ posts = <<>> /\ last_status = <<>> /\ d_ret = [answers |-> <<>>]

ExtractIdle ==
    /\ e_pc = "idle"
    /\ body = 0 /\ pdf_pages = <<>> /\ temp_files = {} /\ temp_path = Unbound
    /\ written = 0 /\ page_num = 0 /\ full_text = <<>> /\ e_error = "none" /\ e_ret = <<>>

SearchIdle ==
    /\ s_pc = "idle"
    /\ questions = <<>> /\ ns = "" /\ top_k = 0 /\ max_retries = 0
    /\ attempt = 0 /\ namespace_ready = FALSE /\ qi = 0 /\ search_attempt = 0
    /\ final_output = <<>> /\ polls = 0 /\ poll_positive = FALSE /\ poll_raised = FALSE
    /\ queries = <<>> /\ failed_all = {} /\ addressed = {} /\ s_ret = <<>>
    /\ responses = <<>>
    /\ last_hits = NoCall

\* search.py:19-39: search_with_text(questions, ns, top_k, max_retries) was called
InitSearch ==
    /\ indexState = "ready"
    /\ store \in SearchStores
    /\ deletes = <<>>
    /\ s_pc = "gate"
    /\ questions \in SeqsUpTo(Questions, MaxQuestions)
    /\ ns \in Namespaces
    /\ top_k \in 1..MaxTopK
    /\ max_retries \in 0..MaxRetriesArg
    /\ attempt = 0 /\ namespace_ready = FALSE /\ qi = 1 /\ search_attempt = 0
    /\ final_output = <<>> /\ polls = 0 /\ poll_positive = FALSE /\ poll_raised = FALSE
    /\ queries = [i \in 1..Len(questions) |-> 0]
    /\ failed_all = {} /\ addressed = {} /\ s_ret = <<>>
    /\ responses = <<>>
    /\ last_hits = NoCall
    /\ IngestIdle
    /\ PipelineIdle
    /\ ChunkIdle
    /\ AllocIdle
    /\ DecideIdle
    /\ ExtractIdle

NextSearch == DescribeIndexStats \/ GateNotReady \/ IndexSearch \/ SearchReturn

SpecSearch == InitSearch /\ [][NextSearch]_vars

\* ingest.py:172-175: parallel_upsert_complete(chunks, namespace) was called
UpsertCalled ==
    /\ store = {RecB1}
    /\ deletes = <<>>
    /\ SearchIdle
    /\ i_pc = "list_indexes"
    /\ chunks \in {ChunkList(len) : len \in ChunkCounts}
    /\ namespace = "doc_a"
    /\ docs = <<>>
    /\ exists_seen = FALSE /\ ready_seen = FALSE /\ describe_polls = 0
    /\ submitted = 0
    /\ w_state = [b \in 1..M |-> "queued"]
    /\ upsert_attempt = [b \in 1..M |-> 0]
    /\ upsert_calls = [b \in 1..M |-> 0]
    /\ delays = [b \in 1..M |-> <<>>]
    /\ w_result = [b \in 1..M |-> -1]
    /\ applied = {} /\ rewritten = {} /\ collected = 0 /\ timed_out = {}
    /\ uploaded_count = 0 /\ failed_count = 0 /\ i_ret = "none"
    /\ calls = 1 /\ i_error = "none"
    /\ PipelineIdle
    /\ ChunkIdle
    /\ AllocIdle
    /\ DecideIdle
    /\ ExtractIdle

\* one call, the index absent, being created or ready when the call starts
InitIngest ==
    /\ indexState \in {"absent", "creating", "ready"}
    /\ UpsertCalled

NextIngest ==
    \/ ListIndexes \/ CreateIndex \/ DescribeIndex \/ BuildDocs \/ SubmitBatch
    \/ WorkerStep
    \/ FutureResult \/ FutureTimeout \/ UpsertReturn
    \/ IndexBecomesReady \/ OtherCreatesIndex

SpecIngest == InitIngest /\ [][NextIngest]_vars

\* repeated calls with the same chunks and namespace, the index being ready
InitRewrite ==
    /\ indexState = "ready"
    /\ UpsertCalled

NextRewrite ==
    \/ ListIndexes \/ BuildDocs \/ SubmitBatch
    \/ WorkerStep
    \/ FutureResult \/ FutureTimeout \/ UpsertReturn \/ UpsertAgain

SpecRewrite == InitRewrite /\ [][NextRewrite]_vars

\* one batch more than the pool has workers, the last holding one record
PoolChunkCount == MaxWorkers * BatchSize + 1

\* ingest.py:172: a call with more batches than workers, the index being ready
InitPool ==
    /\ indexState = "ready"
    /\ store = {RecB1}
    /\ deletes = <<>>
    /\ SearchIdle
    /\ i_pc = "list_indexes"
    /\ chunks = ChunkList(PoolChunkCount)
    /\ namespace = "doc_a"
    /\ docs = <<>>
    /\ exists_seen = FALSE /\ ready_seen = FALSE /\ describe_polls = 0
    /\ submitted = 0
    /\ w_state = [b \in 1..M |-> "queued"]
    /\ upsert_attempt = [b \in 1..M |-> 0]
    /\ upsert_calls = [b \in 1..M |-> 0]
    /\ delays = [b \in 1..M |-> <<>>]
    /\ w_result = [b \in 1..M |-> -1]
    /\ applied = {} /\ rewritten = {} /\ collected = 0 /\ timed_out = {}
    /\ uploaded_count = 0 /\ failed_count = 0 /\ i_ret = "none"
    /\ calls = 1 /\ i_error = "none"
    /\ PipelineIdle
    /\ ChunkIdle
    /\ AllocIdle
    /\ DecideIdle
    /\ ExtractIdle

NextPool ==
    \/ ListIndexes \/ BuildDocs \/ SubmitBatch
    \/ OrderedWorkerStep
    \/ FutureResult \/ UpsertReturn

SpecPool == InitPool /\ [][NextPool]_vars

\* ingest.py:73-77: intelligent_text_chunking(text, max_tokens, overlap_tokens)
\* was called
InitChunk ==
    /\ indexState = "ready"
    /\ store = {}
    /\ deletes = <<>>
    /\ SearchIdle
    /\ IngestIdle
    /\ PipelineIdle
    /\ AllocIdle
    /\ DecideIdle
    /\ ExtractIdle
    /\ c_pc = "split"
    /\ text \in Texts(MaxPieces)
    /\ max_tokens \in MaxTokensArgs
    /\ overlap_tokens \in OverlapTokensArgs
    /\ sentences = <<>> /\ si = 0 /\ c_chunks = <<>>
    /\ current_chunk = <<>> /\ overlap_buffer = <<>> /\ c_ret = <<>>

NextChunk == SplitSentences \/ AddSentence \/ ReturnChunks

SpecChunk == InitChunk /\ [][NextChunk]_vars

\* ingest.py:140: requests are about to allocate their namespaces
InitAlloc ==
    /\ indexState = "ready"
    /\ store = {}
    /\ deletes = <<>>
    /\ SearchIdle
    /\ IngestIdle
    /\ PipelineIdle
    /\ ChunkIdle
    /\ DecideIdle
    /\ ExtractIdle
    /\ clock \in 0..MaxClock
    /\ ns_calls = <<>>

NextAlloc == CreateUniqueNamespace \/ ClockTick

SpecAlloc == InitAlloc /\ [][NextAlloc]_vars

\* ingest.py:23: extract_complete_text_from_pdf(url) was called
InitExtract ==
    /\ indexState = "ready"
    /\ store = {}
    /\ deletes = <<>>
    /\ SearchIdle
    /\ IngestIdle
    /\ PipelineIdle
    /\ ChunkIdle
    /\ AllocIdle
    /\ DecideIdle
    /\ e_pc = "get"
    /\ body \in 0..MaxBody
    /\ pdf_pages \in Documents(MaxPages)
    /\ temp_files \in {{}, {OtherFile}}
    /\ temp_path = Unbound
    /\ written = 0 /\ page_num = 0 /\ full_text = <<>> /\ e_error = "none" /\ e_ret = <<>>

NextExtract ==
    \/ RequestsGet \/ NamedTemporaryFile \/ WriteChunk \/ ReadPdf
    \/ ExtractPage \/ Unlink \/ CheckText \/ ExceptClause

SpecExtract == InitExtract /\ [][NextExtract]_vars

\* the related_clauses a pair may carry
ClauseLists == {<<>>,
                <<<<"<", "n", "o", " ", "t", "e", "x", "t", ">">>, <<" ">>>>,
                <<<<"c", "1">>, <<>>>>}
QaPairs(n) ==
    UNION {[1..k -> [question : Questions, related_clauses : ClauseLists]] : k \in 0..n}

\* decide.py:87: get_document_answers(qa_pairs) was called
InitDecide ==
    /\ indexState = "ready"
    /\ store = {}
    /\ deletes = <<>>
    /\ SearchIdle
    /\ IngestIdle
    /\ PipelineIdle
    /\ ChunkIdle
    /\ AllocIdle
    /\ ExtractIdle
    /\ d_pc = "loop"
    /\ qa_pairs \in QaPairs(MaxPairs)
    /\ d_i = 1
    /\ answers = <<>> /\ answered = <<>> /\ g_attempt = 0
    /\ posts = [k \in 1..Len(qa_pairs) |-> 0]
    /\ last_status = [k \in 1..Len(qa_pairs) |-> 0]
    /\ d_ret = [answers |-> <<>>]

NextDecide == NextPair \/ GroqPost \/ DecideReturn

SpecDecide == InitDecide /\ [][NextDecide]_vars

\* search.py:71-73: a call of search_with_text with one question whose namespace
\* has passed the readiness loop at its first poll
InitParse ==
    /\ indexState = "ready"
    /\ store = ParseStore
    /\ deletes = <<>>
    /\ s_pc = "query"
    /\ questions \in {<<q>> : q \in Questions}
    /\ ns = "doc_a"
    /\ top_k \in 1..MaxTopK
    /\ max_retries = DefaultMaxRetries
    /\ attempt = 0 /\ namespace_ready = TRUE /\ qi = 1 /\ search_attempt = 0
    /\ final_output = <<>> /\ polls = 1 /\ poll_positive = TRUE /\ poll_raised = FALSE
    /\ queries = [i \in 1..Len(questions) |-> 0]
    /\ failed_all = {} /\ addressed = {ns} /\ s_ret = <<>>
    /\ responses = <<>>
    /\ last_hits = NoCall
    /\ IngestIdle
    /\ PipelineIdle
    /\ ChunkIdle
    /\ AllocIdle
    /\ DecideIdle
    /\ ExtractIdle

NextParse == SearchResponse \/ SearchReturn

SpecParse == InitParse /\ [][NextParse]_vars

PipelineQuestions == {<<"q1">>, <<"q1", "q2">>}
Authorizations == {[scheme |-> "Bearer", token |-> AUTHORIZED_TOKEN],
                   [scheme |-> "Bearer", token |-> "wrong"]}

\* main.py:29-33: a request has arrived at run_pipeline
Init ==
    /\ indexState \in {"absent", "creating", "ready"}
    /\ store = {RecB1, RecD1}
    /\ deletes = <<>>
    /\ SearchIdle
    /\ IngestIdle
    /\ p_pc = "auth"
    /\ authorization \in Authorizations
    /\ extracted = "none"
    /\ input_questions \in PipelineQuestions
    /\ ingest_ret = "none"
    /\ search_args = [called |-> FALSE, args |-> <<>>]
    /\ http_status = 0
    /\ ChunkIdle
    /\ AllocIdle
    /\ DecideIdle
    /\ ExtractIdle

Next ==
    \/ CheckAuthorization \/ AllocateNamespace \/ ExtractText \/ ChunkAndUpsert
    \/ ListIndexes \/ CreateIndex \/ DescribeIndex \/ BuildDocs \/ SubmitBatch
    \/ WorkerStep
    \/ FutureResult \/ FutureTimeout \/ UpsertReturn
    \/ IngestReturn \/ CallSearch
    \/ IndexBecomesReady \/ OtherCreatesIndex \/ PurgeDefault

Spec == Init /\ [][Next]_vars

\* main.py:41: an authorized request has reached the call of process_and_ingest,
\* the index being ready
InitProcess ==
    /\ indexState = "ready"
    /\ store = {RecB1, RecD1}
    /\ deletes = <<>>
    /\ SearchIdle
    /\ IngestIdle
    /\ p_pc = "ingest"
    /\ authorization = [scheme |-> "Bearer", token |-> AUTHORIZED_TOKEN]
    /\ extracted = "none"
    /\ input_questions = <<"q1">>
    /\ ingest_ret = "none"
    /\ search_args = [called |-> FALSE, args |-> <<>>]
    /\ http_status = 0
    /\ ChunkIdle
    /\ AllocIdle
    /\ DecideIdle
    /\ ExtractIdle

NextProcess ==
    \/ AllocateNamespace \/ ExtractText \/ ChunkAndUpsert
    \/ ListIndexes \/ BuildDocs \/ SubmitBatch
    \/ WorkerStep
    \/ FutureResult \/ FutureTimeout \/ UpsertReturn
    \/ IngestReturn \/ CallSearch

SpecProcess == InitProcess /\ [][NextProcess]_vars

\* ====================================================================== claims

\* C1: search_with_text returns exactly one result per input question, in the
\* order of the input questions, on every path (namespace never ready, query
\* success, zero hits on every attempt, query failure on every attempt), and
\* no exception leaves it.
C1_OneResultPerQuestion ==
    /\ s_pc # "raised"
    /\ s_pc = "returned" =>
         /\ Len(s_ret) = Len(questions)
         /\ \A i \in 1..Len(questions) : s_ret[i].question = questions[i]

\* a call that returned two results in order, the first question having failed
\* on every attempt and the second having had no hit on any attempt
C1_Witness ==
    /\ s_pc = "returned"
    /\ questions = <<"q2", "q1">>
    /\ 1 \in failed_all /\ queries[1] = SearchAttempts
    /\ 2 \notin failed_all /\ queries[2] = SearchAttempts
    /\ s_ret[2].related_clauses = <<>>
    /\ s_ret[1].question = "q2" /\ s_ret[2].question = "q1"

\* C2: the purge of the request's namespace is invoked exactly once after
\* retrieval completes, so that once the search phase of a request has finished
\* the namespace the request ingested into holds 0 vectors.
C2_PurgedOnceAfterSearch ==
    (p_pc = "responded" /\ search_args.called /\ ingest_ret.success) =>
        /\ Cardinality({k \in 1..Len(deletes) : deletes[k] = namespace}) = 1
        /\ VectorCount(store, namespace) = 0

\* C3: within one request search_with_text is called with the namespace the
\* ingestion of that request allocated and wrote to, and every stats poll and
\* query of the request is addressed to that namespace only.
C3_SearchCalledWithIngestNamespace ==
    (search_args.called /\ ingest_ret.success) =>
        /\ Len(search_args.args) >= RequiredParams
        /\ search_args.args[RequiredParams] = namespace
        /\ addressed \subseteq {namespace}

\* C4: no similarity query is issued unless an earlier stats poll of the same
\* call reported a vector count > 0 for the namespace; when no poll did, zero
\* queries are issued.
C4_QueriesOnlyAfterPositivePoll ==
    /\ \A i \in 1..Len(queries) : queries[i] > 0 => poll_positive
    /\ addressed # {} => polls > 0

\* a query was issued after a poll that was not positive and one that was
C4_Witness ==
    /\ poll_positive
    /\ polls >= 2
    /\ \E i \in 1..Len(queries) : queries[i] > 0

\* C5: the readiness gate issues at most max_retries polls and none after the
\* first positive one; a poll that raises uses up one attempt and is not
\* propagated; with all attempts used and no positive poll the call ends as
\* not ready, returning error results, without raising.
C5_GateBoundedNoRaise ==
    /\ polls <= max_retries
    /\ polls = attempt + (IF namespace_ready THEN 1 ELSE 0)
    /\ poll_positive => s_pc # "gate"
    /\ s_pc # "raised"
    /\ (s_pc = "returned" /\ ~poll_positive) =>
         /\ polls = max_retries
         /\ Len(s_ret) = Len(questions)
         /\ \A i \in 1..Len(s_ret) :
              "error" \in DOMAIN s_ret[i] /\ s_ret[i].related_clauses = <<>>

\* the gate used all its attempts, one of them on a poll that raised, and the
\* call returned
C5_Witness ==
    /\ s_pc = "returned"
    /\ ~poll_positive
    /\ poll_raised
    /\ max_retries >= 2
    /\ polls = max_retries
    /\ Len(s_ret) >= 1

\* C6: a question whose query failed on every attempt gets a result with empty
\* related_clauses and an error marker; no exception leaves search_with_text;
\* every later question is still queried and gets its own result.
C6_FailedQuestionDegrades ==
    /\ s_pc # "raised"
    /\ (s_pc = "returned" /\ namespace_ready) =>
         \A i \in failed_all :
            /\ queries[i] = SearchAttempts
            /\ s_ret[i].question = questions[i]
            /\ s_ret[i].related_clauses = <<>>
            /\ "error" \in DOMAIN s_ret[i]
            /\ \A j \in (i + 1)..Len(questions) :
                 /\ queries[j] >= 1
                 /\ s_ret[j].question = questions[j]

\* the first question failed on every attempt, the second got clauses
C6_Witness ==
    /\ s_pc = "returned"
    /\ Len(questions) >= 2
    /\ 1 \in failed_all
    /\ 2 \notin failed_all
    /\ "error" \notin DOMAIN s_ret[2]
    /\ Len(s_ret[2].related_clauses) > 0

\* the batches recorded as failed: those whose result timed out and those that
\* returned 0
FailedBatches == timed_out \cup {b \in 1..M : w_result[b] = 0}

RECURSIVE SumBatchLen(_)
SumBatchLen(bs) ==
    IF bs = {} THEN 0
    ELSE LET b == CHOOSE x \in bs : TRUE IN BatchLen(b) + SumBatchLen(bs \ {b})

\* C7: when N of the M batches fail (after their retries or by a result
\* timeout) parallel_upsert_complete does not raise, every one of the M
\* batches was submitted and attempted, failed_count is N and uploaded_count
\* is the number of records of the M - N other batches.
C7_PartialFailureCounted ==
    /\ i_pc = "raised" => submitted = 0
    /\ i_pc = "returned" =>
         /\ submitted = M
         /\ \A b \in 1..M : upsert_calls[b] >= 1
         /\ failed_count = Cardinality(FailedBatches)
         /\ uploaded_count = SumBatchLen((1..M) \ FailedBatches)

\* the call returned with some but not all batches failed, one by timeout
C7_Witness ==
    /\ i_pc = "returned"
    /\ M >= 2
    /\ failed_count >= 1
    /\ failed_count < M
    /\ timed_out # {}
    /\ uploaded_count > 0

StrictlyIncreasing(s) == \A k \in 1..(Len(s) - 1) : s[k] < s[k + 1]

\* C8: for one batch robust_batch_upsert issues at most max_retries (3) upsert
\* calls and none after the first successful one (every call but the last was a
\* failure followed by a sleep), returns 0 only after max_retries failures, the
\* sleeps grow strictly, and no sleep follows the last failed attempt.
C8_BoundedRetryBackoff ==
    \A b \in 1..M :
        /\ upsert_calls[b] <= UpsertMaxRetries
        /\ w_result[b] = 0 => upsert_calls[b] = UpsertMaxRetries
        /\ StrictlyIncreasing(delays[b])
        /\ \A k \in 1..Len(delays[b]) : delays[b][k] > 0
        /\ w_state[b] = "done" => Len(delays[b]) = upsert_calls[b] - 1
        /\ w_state[b] # "done" => Len(delays[b]) = upsert_calls[b]

\* a batch failed on all its attempts, with two sleeps
C8_Witness ==
    \E b \in 1..M :
        /\ w_state[b] = "done"
        /\ w_result[b] = 0
        /\ upsert_calls[b] = UpsertMaxRetries
        /\ Len(delays[b]) = UpsertMaxRetries - 1

\* C9: upserting the same chunk list again under the same namespace, a retry
\* of a batch whose upsert took effect but was reported failed included, never
\* leaves more records under the namespace than there are chunks, and leaves
\* exactly that number once every batch was written.
C9_IdempotentUpsert ==
    /\ VectorCount(store, namespace) <= Len(chunks)
    /\ applied = 1..M => VectorCount(store, namespace) = Len(chunks)

\* the second call wrote every batch again, one of them twice within the call
C9_Witness ==
    /\ calls = 2
    /\ i_pc = "returned"
    /\ M >= 2
    /\ applied = 1..M
    /\ rewritten # {}
    /\ VectorCount(store, namespace) = Len(chunks)

\* C10: no upsert is issued before the store has reported the index as
\* existing and ready, whether this call created the index or found it.
C10_NoUpsertBeforeReady ==
    \A b \in 1..M : upsert_calls[b] > 0 => (exists_seen /\ ready_seen)

\* C11: the wait for index readiness is bounded: when the store never reports
\* the index ready, parallel_upsert_complete stops polling after a maximum
\* number of polls and fails with an index-not-ready error; so a call that has
\* polled that often without seeing the index ready has failed and is not
\* still waiting.
C11_WaitBounded ==
    (describe_polls >= MaxPolls /\ ~ready_seen) => i_pc = "raised"

\* C12: a fetch or extraction failure inside process_and_ingest reaches the
\* caller as one terminal failure outcome (success false, no namespace, the
\* error text); process_and_ingest does not raise (run_pipeline goes on to its
\* next statement); no chunking and no index write happens after the failure.
C12_ExtractionFailureTerminal ==
    extracted = "raised" =>
        /\ p_pc \in {"search", "responded"}
        /\ ingest_ret = [namespace |-> "None", success |-> FALSE, error |-> ExtractionFailed]
        /\ p_pc = "responded" => search_args.called
        /\ i_pc = "idle" /\ calls = 0 /\ chunks = <<>>
        /\ NsRecords(store, namespace) = {}

\* the extraction raised and process_and_ingest has returned the failure dict
C12_Witness ==
    /\ extracted = "raised"
    /\ p_pc = "search"
    /\ ingest_ret.success = FALSE
    /\ ingest_ret.error = ExtractionFailed

\* C13: ingestion is reported to the caller as successful only if the upload
\* success rate meets the quality threshold (90% of the chunks); with at least
\* one batch uploaded but fewer than 90% of the chunks, process_and_ingest does
\* not return plain success.
C13_SuccessOnlyAboveThreshold ==
    ((p_pc = "search" \/ search_args.called) /\ ingest_ret.success) =>
        ~LowSuccessRate(uploaded_count, Len(chunks))

\* the chunk c is one of the sentences the text was cut into
IsSentence(c) == \E k \in 1..Len(sentences) : sentences[k] = c

\* C14: for every text and every (max_tokens, overlap_tokens) every chunk
\* intelligent_text_chunking returns has at most max_tokens * 4 characters,
\* except a chunk that is exactly one sentence which is by itself longer.
C14_ChunkWithinMaxChars ==
    c_pc = "done" =>
        \A k \in 1..Len(c_ret) :
            Len(c_ret[k]) <= max_chars \/ IsSentence(c_ret[k])

\* the words of the text and of the returned chunks
TextWords == {Words(text)[k] : k \in 1..Len(Words(text))}
ChunkWords ==
    UNION {{Words(c_ret[k])[j] : j \in 1..Len(Words(c_ret[k]))} : k \in 1..Len(c_ret)}

\* C15: chunk boundaries never fall inside a word: every whitespace-delimited
\* word of the input text is a whole word of at least one returned chunk.
C15_NoWordLost ==
    c_pc = "done" => TextWords \subseteq ChunkWords

\* C16 as stated: any two calls of create_unique_namespace, sequential or
\* concurrent, in one process or in different ones, return distinct namespace
\* values, also when both fall in the same millisecond.
C16_AlwaysDistinct ==
    \A i, j \in 1..Len(ns_calls) :
        i # j => ns_calls[i].namespace # ns_calls[j].namespace

\* C16, amended: two calls return distinct namespaces whenever their
\* millisecond timestamps differ; two calls in the same millisecond return
\* distinct namespaces exactly when their hash suffixes differ.
C16_DistinctUnlessSuffixCollides ==
    \A i, j \in 1..Len(ns_calls) :
        i # j =>
            /\ ns_calls[i].timestamp # ns_calls[j].timestamp
                 => ns_calls[i].namespace # ns_calls[j].namespace
            /\ ns_calls[i].timestamp = ns_calls[j].timestamp
                 => ((ns_calls[i].namespace = ns_calls[j].namespace)
                       <=> (ns_calls[i].hash_suffix = ns_calls[j].hash_suffix))

\* two calls in one millisecond got distinct namespaces, and a call in another
\* millisecond has the hash suffix of one of them and a distinct namespace
C16_Witness ==
    \E i, j, k \in 1..Len(ns_calls) :
        /\ i # j
        /\ ns_calls[i].timestamp = ns_calls[j].timestamp
        /\ ns_calls[i].namespace # ns_calls[j].namespace
        /\ ns_calls[k].timestamp # ns_calls[i].timestamp
        /\ ns_calls[k].hash_suffix = ns_calls[i].hash_suffix
        /\ ns_calls[k].namespace # ns_calls[i].namespace

\* C17: a search against a namespace that holds no vectors returns, for each
\* question, a result whose related_clauses is the empty list and that carries
\* no error marker.
C17_EmptyNamespaceNoError ==
    (s_pc = "returned" /\ VectorCount(store, ns) = 0) =>
        /\ Len(s_ret) = Len(questions)
        /\ \A i \in 1..Len(s_ret) :
             /\ s_ret[i].related_clauses = <<>>
             /\ "error" \notin DOMAIN s_ret[i]

\* C18: within one question's result no passage string occurs twice in
\* related_clauses, also when the response holds several hits with the same
\* text (stated of the responses that hold at most top_k hits).
C18_NoRepeatedPassage ==
    \A i \in 1..Len(final_output) :
        Len(responses[i]) <= top_k => NoRepeat(final_output[i].related_clauses)

\* C19: for every question the length of related_clauses is at most top_k,
\* whatever number of hits the response holds.
C19_AtMostTopK ==
    \A i \in 1..Len(final_output) : Len(final_output[i].related_clauses) <= top_k

\* the string-valued fields of a hit that are longer than n characters, by position
LongStrings(fields, n) ==
    {j \in 1..Len(fields) : fields[j][2].t = "str" /\ StrLen(fields[j][2]) > n}

\* C20: the passage of a hit is the value of the first of text, chunk_text,
\* content, description, body the hit carries; when it carries none of them
\* the passage is the first string-valued field longer than 20 characters, and
\* a string field of 20 characters or fewer is never taken.
C20_FieldPriorityAndFallback ==
    \A i \in 1..Len(final_output) :
        \A k \in 1..Len(responses[i]) :
            LET fields == responses[i][k].fields
                passage == final_output[i].related_clauses[k]
                long == LongStrings(fields, 20)
            IN IF IsSet(KnownFieldText(fields))
               THEN passage = KnownFieldText(fields)
               ELSE /\ long # {} =>
                         passage = fields[CHOOSE j \in long : \A l \in long : j <= l][2]
                    /\ \A j \in 1..Len(fields) :
                         (fields[j][2].t = "str" /\ StrLen(fields[j][2]) <= 20)
                            => passage # fields[j][2]

\* C21: on every exit path of extract_complete_text_from_pdf (normal return,
\* fetch or download error, PDF parse error, empty-text error) the temporary
\* file the call created does not exist once the call has returned or raised.
C21_TempFileRemoved ==
    (e_pc \in {"returned", "raised"}) => TempName \notin temp_files

\* the call raised on a PDF parse error after it had created and filled its
\* temporary file
C21_Witness ==
    /\ e_pc = "raised"
    /\ e_error = "parse"
    /\ temp_path = TempName
    /\ written = body /\ body > 0

\* C22: get_document_answers returns exactly one answer string per input
\* (question, clauses) pair, in input order, whatever the outcome of each pair
\* was: empty clauses, success, rate limit, auth error, retries exhausted, or
\* a response without choices.
C22_OneAnswerPerPair ==
    /\ d_pc = "loop" => Len(answers) = d_i - 1
    /\ d_pc = "returned" =>
         /\ Len(d_ret.answers) = Len(qa_pairs)
         /\ answered = [k \in 1..Len(qa_pairs) |-> k]
         /\ \A k \in 1..Len(qa_pairs) :
              /\ NoRelevantClauses(qa_pairs[k].related_clauses) =>
                   posts[k] = 0 /\ d_ret.answers[k] = LackOfInformation
              /\ (posts[k] > 0 /\ last_status[k] = 401) =>
                   d_ret.answers[k] = ErrorAnswer(AuthenticationFailed)
              /\ (posts[k] > 0 /\ last_status[k] \notin {200, 401}) =>
                   /\ posts[k] = GroqMaxRetries
                   /\ d_ret.answers[k] = ErrorAnswer(FailedAfter(GroqMaxRetries))

\* a call that returned two answers: the first pair was rate limited on every
\* attempt, the second got an answer on its second attempt
C22_Witness ==
    /\ d_pc = "returned"
    /\ Len(qa_pairs) = 2
    /\ posts[1] = GroqMaxRetries /\ last_status[1] = 429
    /\ posts[2] = 2 /\ last_status[2] = 200
    /\ d_ret.answers[1] = "Answer could not be generated: Failed after 3 attempts"
    /\ d_ret.answers[2] = "Not covered"

\* C23: when parallel_upsert_complete has run and every batch succeeded in the
\* end, the namespace holds exactly one record per chunk position i, with the
\* id built from the namespace and i and the text of chunk i, whatever the
\* interleaving of the workers and their retries was; and at no time is a
\* record written under another namespace.
C23_OneRecordPerChunk ==
    /\ {r \in store : r.ns # namespace} = {RecB1}
    /\ (i_pc = "returned" /\ \A b \in 1..M : w_result[b] > 0) =>
         NsRecords(store, namespace)
           = {[ns |-> namespace, _id |-> RecordId(namespace, k - 1),
               fields |-> << <<"text", Str(chunks[k])>> >>] : k \in 1..Len(chunks)}

\* two batches, both successful in the end; the first needed all its attempts,
\* wrote its records more than once and was still running when the collect
\* loop gave up waiting for it
C23_Witness ==
    /\ i_pc = "returned"
    /\ M = 2
    /\ \A b \in 1..M : w_result[b] = BatchLen(b)
    /\ upsert_calls[1] = UpsertMaxRetries
    /\ 1 \in rewritten
    /\ 1 \in timed_out
    /\ VectorCount(store, namespace) = Len(chunks)

\* C24: when parallel_upsert_complete returns, the uploaded count it computed
\* equals the number of records whose upsert took effect in the store: a batch
\* recorded as failed because waiting for its result timed out has no record
\* stored, and a batch counted as uploaded is stored in full.
C24_UploadedCountIsStored ==
    i_pc = "returned" =>
      /\ uploaded_count = VectorCount(store, namespace)
      /\ \A b \in timed_out : b \notin applied
      /\ \A b \in (1..M) \ timed_out :
           w_result[b] > 0 =>
             \A d \in BatchDocs(b) :
               [ns |-> namespace, _id |-> d._id, fields |-> d.fields] \in store

\* C25: index creation is create-if-absent and idempotent under concurrency:
\* when another ingestion request creates the index between this call's
\* existence check and its create call, this call does not fail because of
\* it; it finds the index and goes on to write its chunks.
C25_CreateIsIdempotent == i_error # "already_exists"

\* C27: for each question search_with_text issues at most 3 similarity queries,
\* zero-hit responses and raised errors counted alike; a zero-hit response is
\* retried only on the first two attempts; a zero-hit response on the third
\* attempt yields a result with empty related_clauses and no error marker; and
\* the first response with at least one hit ends the attempts of its question.
C27_AtMostThreeQueries ==
    /\ \A i \in 1..Len(queries) : queries[i] <= SearchAttempts
    /\ search_attempt < SearchAttempts
    \* the attempts of a question go on only after an error or a zero-hit response
    /\ (s_pc = "query" /\ search_attempt > 0) =>
         /\ last_hits \in {Raised, 0}
         /\ queries[qi] = search_attempt
         /\ Len(final_output) = qi - 1
    \* the latest query ended the attempts of question qi - 1
    /\ (s_pc \in {"query", "returned"} /\ search_attempt = 0 /\ qi > 1) =>
         LET res == final_output[qi - 1]
         IN  /\ Len(final_output) = qi - 1
             /\ last_hits = 0 =>
                  /\ queries[qi - 1] = SearchAttempts
                  /\ res.related_clauses = <<>>
                  /\ "error" \notin DOMAIN res
             /\ last_hits > 0 =>
                  /\ Len(res.related_clauses) = last_hits
                  /\ "error" \notin DOMAIN res
             /\ last_hits = Raised =>
                  /\ queries[qi - 1] = SearchAttempts
                  /\ "error" \in DOMAIN res

\* the first question got no hit on any of its three attempts and has a result
\* without clauses and without error marker; the second got a hit on its first
\* attempt, which was its only query
C27_Witness ==
    /\ s_pc = "returned"
    /\ Len(questions) = 2
    /\ queries = <<SearchAttempts, 1>>
    /\ 1 \notin failed_all
    /\ s_ret[1].related_clauses = <<>> /\ "error" \notin DOMAIN s_ret[1]
    /\ last_hits > 0
    /\ Len(s_ret[2].related_clauses) = last_hits

RECURSIVE BatchesUpTo(_)
\* the batches 1..b, one after the other
BatchesUpTo(b) == IF b = 0 THEN <<>> ELSE BatchesUpTo(b - 1) \o Batch(docs, b)

\* C26: during parallel_upsert_complete at most 20 upsert calls are in flight
\* at any moment, however many chunks there are; every upsert call carries a
\* non-empty batch of at most 50 records; and each record belongs to exactly
\* one batch.
C26_PoolAndBatchBounds ==
    /\ Cardinality({b \in 1..M : w_state[b] = "running"}) <= MaxWorkers
    /\ \A b \in 1..M :
         upsert_calls[b] > 0 => (BatchLen(b) >= 1 /\ BatchLen(b) <= BatchSize)
    /\ i_pc \in {"submit", "returned"} =>
         /\ BatchesUpTo(M) = docs
         /\ Cardinality({docs[k]._id : k \in 1..Len(docs)}) = Len(docs)

\* the pool is full: 20 workers are busy with their batches, each after a
\* failed upsert, and the 21st batch, submitted, waits for a free worker
C26_Witness ==
    /\ i_pc = "submit"
    /\ M = MaxWorkers + 1
    /\ submitted = M
    /\ Cardinality({b \in 1..M : w_state[b] = "running"}) = MaxWorkers
    /\ w_state[M] = "queued"
    /\ \A b \in 1..MaxWorkers : upsert_calls[b] >= 1
====
